---- MODULE Spec2Model ----
(***************************************************************************)
(* Model of the question-answering service in its three revisions          *)
(* (main1.py, main4.py, main5.py): file-type dispatch, text extraction,    *)
(* prompt composition, the upstream LLM call and the HTTP response.        *)
(*                                                                         *)
(* A Python str is a sequence of tokens.  A token is a TLA+ string: one    *)
(* character of user data is a token of length 1, a literal of the source  *)
(* (a template fragment, a fixed diagnostic) is one token that keeps its   *)
(* text.  Slicing and len() count characters, so they are applied only to  *)
(* sequences of one-character tokens, or go through CharLen.               *)
(***************************************************************************)
EXTENDS Integers, Sequences, FiniteSets, TLC

\* ------------------------------------------------------------------ bounds
NumReq == 2
MaxShort == 2
Over == 1
MaxPages == 2

\* ------------------------------------------------------- program constants
MAX_CONTEXT == 3000
MAX_QUESTION_LENGTH == 2500

Revs == {"main1", "main4", "main5"}
Req == 1 .. NumReq

\* ------------------------------------------------------------ str helpers
Rep(c, n) == [i \in 1 .. n |-> c]

\* text[:n]
Slice(text, n) == IF Len(text) <= n THEN text ELSE SubSeq(text, 1, n)

RECURSIVE SumLen(_, _)
SumLen(s, idx) ==
  IF idx = {} THEN 0
  ELSE LET i == CHOOSE j \in idx : TRUE
       IN (Len(s[i]) - 1) + SumLen(s, idx \ {i})

\* len(text), in characters
CharLen(s) == Len(s) + SumLen(s, {i \in 1 .. Len(s) : Len(s[i]) # 1})

UPPER == <<"A", "B", "C", "D", "E", "F", "G", "H", "I", "J", "K", "L", "M",
           "N", "O", "P", "Q", "R", "S", "T", "U", "V", "W", "X", "Y", "Z">>
LOWER == <<"a", "b", "c", "d", "e", "f", "g", "h", "i", "j", "k", "l", "m",
           "n", "o", "p", "q", "r", "s", "t", "u", "v", "w", "x", "y", "z">>

LowerChar(c) ==
  IF \E k \in 1 .. 26 : UPPER[k] = c
  THEN LOWER[CHOOSE k \in 1 .. 26 : UPPER[k] = c]
  ELSE c

\* str.lower()
Lower(s) == [i \in 1 .. Len(s) |-> LowerChar(s[i])]

\* str.endswith(suffix)
EndsWith(s, suffix) ==
  /\ Len(s) >= Len(suffix)
  /\ SubSeq(s, Len(s) - Len(suffix) + 1, Len(s)) = suffix

\* sub in s
Contains(s, sub) ==
  \E i \in 1 .. (Len(s) - Len(sub) + 1) : \A k \in 1 .. Len(sub) : s[i + k - 1] = sub[k]

WS == {" ", "\n"}

\* first index >= p of s that is not whitespace, Len(s) + 1 when there is none
SkipWs(s, p) ==
  CHOOSE i \in p .. (Len(s) + 1) :
    /\ (i = Len(s) + 1 \/ s[i] \notin WS)
    /\ \A j \in p .. (i - 1) : s[j] \in WS

\* last index of s that is not whitespace, 0 when there is none
LastNonWs(s) ==
  CHOOSE i \in 0 .. Len(s) :
    /\ (i = 0 \/ s[i] \notin WS)
    /\ \A j \in (i + 1) .. Len(s) : s[j] \in WS

\* str.strip()
Strip(s) ==
  LET a == SkipWs(s, 1)
      b == LastNonWs(s)
  IN IF a > b THEN << >> ELSE SubSeq(s, a, b)

\* bytes.decode("utf-8", errors="ignore"): a byte that is not valid UTF-8 is
\* dropped, every other byte of the modelled alphabet is one character
BAD == "\\xff"
Decode(bytes) == SelectSeq(bytes, LAMBDA b : b # BAD)

\* ------------------------------------------------------------------- json
\* json.loads / json.dumps(indent=2) on the documents the modelled alphabet
\* can spell: integers without sign, arrays, whitespace.
DIGITS == {"0", "1"}

JInt(d) == [t |-> "int", digits |-> d, items |-> << >>]
JArr(xs) == [t |-> "arr", digits |-> << >>, items |-> xs]
JFail == [ok |-> FALSE, val |-> JInt(<< >>), pos |-> 0]
JOk(v, p) == [ok |-> TRUE, val |-> v, pos |-> p]

\* first index >= p of s that is not a digit
SkipDigits(s, p) ==
  CHOOSE i \in p .. (Len(s) + 1) :
    /\ (i = Len(s) + 1 \/ s[i] \notin DIGITS)
    /\ \A j \in p .. (i - 1) : s[j] \in DIGITS

RECURSIVE ParseValue(_, _)
RECURSIVE ParseItems(_, _, _)

\* the value that starts at s[p] (no leading whitespace), and the index after it
ParseValue(s, p) ==
  IF p > Len(s) THEN JFail
  ELSE IF s[p] = "0" THEN JOk(JInt(<<"0">>), p + 1)
  ELSE IF s[p] \in DIGITS
    THEN LET e == SkipDigits(s, p) IN JOk(JInt(SubSeq(s, p, e - 1)), e)
  ELSE IF s[p] = "["
    THEN LET q == SkipWs(s, p + 1)
         IN IF q <= Len(s) /\ s[q] = "]" THEN JOk(JArr(<< >>), q + 1)
            ELSE ParseItems(s, q, << >>)
  ELSE JFail

\* the items of an array from s[p] (whitespace skipped) up to its "]"
ParseItems(s, p, acc) ==
  LET v == ParseValue(s, p)
  IN IF ~v.ok THEN JFail
     ELSE LET q == SkipWs(s, v.pos)
          IN IF q > Len(s) THEN JFail
             ELSE IF s[q] = "," THEN ParseItems(s, SkipWs(s, q + 1), Append(acc, v.val))
             ELSE IF s[q] = "]" THEN JOk(JArr(Append(acc, v.val)), q + 1)
             ELSE JFail

\* json.loads(text): one value, whitespace around it, nothing after it
JsonLoads(text) ==
  LET v == ParseValue(text, SkipWs(text, 1))
  IN IF v.ok /\ SkipWs(text, v.pos) = Len(text) + 1 THEN v ELSE JFail

RECURSIVE JsonDumps(_, _)
RECURSIVE DumpItems(_, _, _)

\* json.dumps(value, indent=2) at nesting depth level
JsonDumps(v, level) ==
  IF v.t = "int" THEN v.digits
  ELSE IF v.items = << >> THEN <<"[", "]">>
  ELSE <<"[">> \o DumpItems(v.items, 1, level + 1)
         \o <<"\n">> \o Rep(" ", 2 * level) \o <<"]">>

DumpItems(xs, i, level) ==
  IF i > Len(xs) THEN << >>
  ELSE (IF i > 1 THEN <<",">> ELSE << >>)
         \o <<"\n">> \o Rep(" ", 2 * level) \o JsonDumps(xs[i], level)
         \o DumpItems(xs, i + 1, level)

\* ------------------------------------------------------------ the upload
\* An upload is a filename, a declared content type and a payload.  The
\* payload is its bytes together with what the third-party decoders make of
\* those bytes: fitz (pdf) and PIL (img).
NoPdf == [ok |-> FALSE, pages |-> << >>]
NoImg == [ok |-> FALSE, pixels |-> "none", mode |-> "none"]
NoData == [bytes |-> << >>, pdf |-> NoPdf, img |-> NoImg]
NoFile == [present |-> FALSE, filename |-> << >>, content_type |-> "", data |-> NoData]
Upload(name, ctype, data) ==
  [present |-> TRUE, filename |-> name, content_type |-> ctype, data |-> data]

\* ------------------------------------------------------------- extractors
RECURSIVE JoinPages(_, _)
\* "\n".join(page.get_text("text") for page in pdf_document)
JoinPages(pages, i) ==
  IF i > Len(pages) THEN << >>
  ELSE (IF i > 1 THEN <<"\n">> ELSE << >>) \o pages[i] \o JoinPages(pages, i + 1)

\* extract_text_from_pdf, the same in main4.py and main5.py
extract_text_from_pdf(pdf_bytes) ==
  IF ~pdf_bytes.pdf.ok THEN << >>
  ELSE Slice(JoinPages(pdf_bytes.pdf.pages, 1), MAX_CONTEXT)

\* mutant: the slice is forgotten
extract_text_from_jsonl_uncapped(jsonl_bytes) == Decode(jsonl_bytes.bytes)

\* main4.py extract_text_from_jsonl
extract_text_from_jsonl(jsonl_bytes) == Slice(Decode(jsonl_bytes.bytes), MAX_CONTEXT)

\* mutant: the text is passed on as read, not parsed and re-serialized
extract_text_from_json_raw(json_bytes) == Slice(Decode(json_bytes.bytes), MAX_CONTEXT)

\* main5.py extract_text_from_json
extract_text_from_json(json_bytes) ==
  LET data == JsonLoads(Decode(json_bytes.bytes))
  IN IF ~data.ok THEN << >> ELSE Slice(JsonDumps(data.val, 0), MAX_CONTEXT)

\* main5.py extract_text_from_txt
extract_text_from_txt(txt_bytes) == Slice(Decode(txt_bytes.bytes), MAX_CONTEXT)

\* main4.py, the else branch of solve_question
decode_other(file_bytes) == Slice(Decode(file_bytes.bytes), MAX_CONTEXT)

\* ------------------------------------------------------------------ image
UPLOAD_FOLDER == <<"processed_images">>
NoArtifact == [fmt |-> "none", pixels |-> "none", mode |-> "none"]

\* os.path.join(UPLOAD_FOLDER, f"processed_{filename}")
OutputPath(filename) == UPLOAD_FOLDER \o <<"/", "processed_">> \o filename

\* mutant: the except branch returns the path it failed to write
process_image_always_path(image_bytes, filename, files) ==
  [path |-> OutputPath(filename),
   files |-> IF image_bytes.img.ok /\ ~(\E i \in 1 .. Len(filename) : filename[i] = "/")
             THEN [p \in DOMAIN files \cup {OutputPath(filename)} |->
                     IF p = OutputPath(filename)
                     THEN [fmt |-> "PNG", pixels |-> image_bytes.img.pixels, mode |-> "RGB"]
                     ELSE files[p]]
             ELSE files]

\* main5.py process_image: the path written, << >> on any exception, and the
\* disk afterwards.  open() of the output path fails when the filename names
\* a directory that does not exist.
process_image(image_bytes, filename, files) ==
  IF ~image_bytes.img.ok \/ (\E i \in 1 .. Len(filename) : filename[i] = "/")
  THEN [path |-> << >>, files |-> files]
  ELSE LET output_path == OutputPath(filename)
           png == [fmt |-> "PNG", pixels |-> image_bytes.img.pixels, mode |-> "RGB"]
       IN [path |-> output_path,
           files |-> [p \in DOMAIN files \cup {output_path} |->
                        IF p = output_path THEN png ELSE files[p]]]

\* ----------------------------------------------------------------- prompt
ELLIPSIS == "..."

\* mutant: < where the code has <=
truncate_text_lt(text, max_length) ==
  IF CharLen(text) < max_length THEN text
  ELSE SubSeq(text, 1, max_length) \o <<ELLIPSIS>>

\* main4.py truncate_text
truncate_text(text, max_length) ==
  IF CharLen(text) <= max_length THEN text
  ELSE SubSeq(text, 1, max_length) \o <<ELLIPSIS>>

COT_HEAD == "Below is the chain-of-thought reasoning process:\n"
COT_CONTEXT == "Context:\n"
COT_SEP == "\n\n"
COT_QUESTION == "Question: "
COT_TAIL == "Now, think step-by-step through the problem and then provide only the final answer."

\* mutant: the context section is emitted without testing the context
build_enhanced_prompt_always_context(q, c) ==
  <<COT_HEAD, COT_CONTEXT>> \o c \o <<COT_SEP, COT_QUESTION>> \o q \o <<COT_SEP, COT_TAIL>>

\* main4.py build_enhanced_prompt
build_enhanced_prompt(q, c) ==
  <<COT_HEAD>>
    \o (IF c # << >> THEN <<COT_CONTEXT>> \o c \o <<COT_SEP>> ELSE << >>)
    \o <<COT_QUESTION>> \o q \o <<COT_SEP>>
    \o <<COT_TAIL>>

\* main4.py get_llm_answer, lines 93-97
prompt4(q, c) ==
  LET truncated_question == truncate_text(q, MAX_QUESTION_LENGTH)
      truncated_context == IF c # << >> THEN truncate_text(c, MAX_CONTEXT) ELSE << >>
  IN build_enhanced_prompt(truncated_question, truncated_context)

M1_CONTEXT == "Context: "
M1_QUESTION == "\nQuestion: "

\* main1.py get_llm_answer, line 133
prompt1(q, c) ==
  IF c = << >> THEN q ELSE <<M1_CONTEXT>> \o c \o <<M1_QUESTION>> \o q

M5_CONTEXT == "Context:\n"
M5_QUESTION == "\n\nQuestion: "
M5_TAIL == "\n\nProvide the most accurate answer."

\* main5.py get_llm_answer, line 99
prompt5(q, c) == <<M5_CONTEXT>> \o c \o <<M5_QUESTION>> \o q \o <<M5_TAIL>>

\* ------------------------------------------------------------- LLM client
\* What a Python call produced: a str, None, or an exception.
Ok(v) == [raised |-> FALSE, none |-> FALSE, value |-> v]
None == [raised |-> FALSE, none |-> TRUE, value |-> << >>]
Raise(e) == [raised |-> TRUE, none |-> FALSE, value |-> <<e>>]

\* The outcome of the one httpx.post: an HTTP response (status, raw text,
\* and what response.json() makes of it), a timeout or another transport
\* error (text is str(e)).
NoJson == [valid |-> FALSE, hasChoices |-> FALSE, choices |-> << >>]
NoOutcome == [kind |-> "none", status |-> 0, text |-> << >>, json |-> NoJson]
Http(status, text, json) == [kind |-> "http", status |-> status, text |-> text, json |-> json]
Timeout(text) == [kind |-> "timeout", status |-> 0, text |-> text, json |-> NoJson]
TransportError(text) == [kind |-> "error", status |-> 0, text |-> text, json |-> NoJson]

\* response.json()["choices"][0]["message"]["content"]
first_content(o) ==
  IF ~o.json.valid THEN Raise("JSONDecodeError")
  ELSE IF ~o.json.hasChoices THEN Raise("KeyError")
  ELSE IF o.json.choices = << >> THEN Raise("IndexError")
  ELSE IF o.json.choices[1].isStr THEN Ok(o.json.choices[1].content)
  ELSE None

\* <content>.strip()
stripped(c) ==
  IF c.raised THEN c
  ELSE IF c.none THEN Raise("AttributeError")
  ELSE Ok(Strip(c.value))

MSG_429 == "AIPROXY monthly request limit reached. Try again next month!"
MSG_403_1 == "AIPROXY cost limit exceeded ($0.5). Requests are blocked!"
MSG_403_4 == "AIPROXY cost limit exceeded. Requests are blocked!"
MSG_TIMEOUT_1 == "AIPROXY request timed out. Try again later or simplify your question."
MSG_TIMEOUT_4 == "AIPROXY request timed out. Try again later."

\* main1.py get_llm_answer, lines 144-158
llm_result1(o) ==
  IF o.kind = "http"
  THEN IF o.status = 200 THEN first_content(o)
       ELSE IF o.status = 429 THEN Ok(<<MSG_429>>)
       ELSE IF o.status = 403 THEN Ok(<<MSG_403_1>>)
       ELSE Ok(<<"AIPROXY Error ", ToString(o.status), ": ">> \o o.text)
  ELSE IF o.kind = "timeout" THEN Ok(<<MSG_TIMEOUT_1>>)
  ELSE Ok(<<"Failed to connect to AIPROXY: ">> \o o.text)

\* mutant: the 429 branch is missing, as it is in main5.py
llm_result4_no_429(o) ==
  IF o.kind = "http"
  THEN IF o.status = 200 THEN stripped(first_content(o))
       ELSE IF o.status = 403 THEN Ok(<<MSG_403_4>>)
       ELSE Ok(<<"AIPROXY Error ", ToString(o.status), ": ">> \o o.text)
  ELSE IF o.kind = "timeout" THEN Ok(<<MSG_TIMEOUT_4>>)
  ELSE Ok(<<"Failed to connect to AIPROXY: ">> \o o.text)

\* main4.py get_llm_answer, lines 108-122
llm_result4(o) ==
  IF o.kind = "http"
  THEN IF o.status = 200 THEN stripped(first_content(o))
       ELSE IF o.status = 429 THEN Ok(<<MSG_429>>)
       ELSE IF o.status = 403 THEN Ok(<<MSG_403_4>>)
       ELSE Ok(<<"AIPROXY Error ", ToString(o.status), ": ">> \o o.text)
  ELSE IF o.kind = "timeout" THEN Ok(<<MSG_TIMEOUT_4>>)
  ELSE Ok(<<"Failed to connect to AIPROXY: ">> \o o.text)

\* main5.py get_llm_answer, lines 110-117; httpx.TimeoutException is a
\* subclass of httpx.RequestError
llm_result5(o) ==
  IF o.kind = "http"
  THEN IF o.status = 200 THEN stripped(first_content(o))
       ELSE Ok(<<"Error ", ToString(o.status), ": ">> \o o.text)
  ELSE Ok(<<"Failed to connect to LLM: ">> \o o.text)

\* mutant: a timed-out post is tried once more
get_llm_answer_retry(v, q, c, o) ==
  [prompt |-> IF v = "main1" THEN prompt1(q, c)
              ELSE IF v = "main4" THEN prompt4(q, c)
              ELSE prompt5(q, c),
   posts |-> IF o.kind = "timeout" THEN 2 ELSE 1,
   outcome |-> o,
   res |-> IF v = "main1" THEN llm_result1(o)
           ELSE IF v = "main4" THEN llm_result4(o)
           ELSE llm_result5(o)]

\* get_llm_answer(question, context) of revision v when the post ends as o:
\* the prompt sent, the number of posts made, and the result
get_llm_answer(v, q, c, o) ==
  [prompt |-> IF v = "main1" THEN prompt1(q, c)
              ELSE IF v = "main4" THEN prompt4(q, c)
              ELSE prompt5(q, c),
   posts |-> 1,
   outcome |-> o,
   res |-> IF v = "main1" THEN llm_result1(o)
           ELSE IF v = "main4" THEN llm_result4(o)
           ELSE llm_result5(o)]

\* --------------------------------------------------------------- responses
NoResp == [kind |-> "none", status |-> 0, answer |-> << >>, media |-> "",
           filename |-> << >>, path |-> << >>]
\* AnswerResponse(answer=...) returned from the handler
AnswerResponse(a) == [kind |-> "json", status |-> 200, answer |-> a,
                      media |-> "application/json", filename |-> << >>, path |-> << >>]
\* FileResponse(path, media_type=..., filename=...)
FileResponse(path, media, name) == [kind |-> "file", status |-> 200, answer |-> << >>,
                                    media |-> media, filename |-> name, path |-> path]
\* raise HTTPException(status_code=..., detail=...)
HTTPException(status, detail) == [kind |-> "httperror", status |-> status,
                                  answer |-> <<detail>>, media |-> "application/json",
                                  filename |-> << >>, path |-> << >>]
\* an exception that leaves the handler: the server answers 500
Unhandled(e) == [kind |-> "unhandled", status |-> 500, answer |-> e,
                 media |-> "text/plain", filename |-> << >>, path |-> << >>]

\* AnswerResponse(answer=res): answer is declared str, so None is rejected
\* by validation; an exception raised while computing res propagates
answer_response(res) ==
  IF res.raised THEN Unhandled(res.value)
  ELSE IF res.none THEN Unhandled(<<"ValidationError">>)
  ELSE AnswerResponse(res.value)

NoLlm == [prompt |-> << >>, posts |-> 0, outcome |-> NoOutcome, res |-> None]

\* --------------------------------------------------------------- handlers
DOT_PDF == <<".", "p", "d", "f">>
DOT_JSON == <<".", "j", "s", "o", "n">>
DOT_JSONL == <<".", "j", "s", "o", "n", "l">>
DOT_TXT == <<".", "t", "x", "t">>
DOT_PNG == <<".", "p", "n", "g">>
DOT_JPEG == <<".", "j", "p", "e", "g">>
DOT_JPG == <<".", "j", "p", "g">>
DOT_WEBP == <<".", "w", "e", "b", "p">>
APPLICATION_PDF == "application/pdf"

GITHUB_ACTION == <<"G", "i", "t", "H", "u", "b", " ", "a", "c", "t", "i", "o", "n">>
REPOSITORY_URL == <<"r", "e", "p", "o", "s", "i", "t", "o", "r", "y", " ", "U", "R", "L">>
FIND_VERCEL == <<"F", "i", "n", "d", " ", "t", "h", "e", " ", "V", "e", "r", "c", "e", "l",
                 " ", "A", "P", "I", " ", "U", "R", "L">>

\* main1.py get_github_repo_with_action, by the way it ends: one of its
\* return statements, or an httpx exception (its calls are not guarded)
GithubEnds == {"user_error", "repos_error", "found", "not_found", "raised"}
get_github_repo_with_action(g) ==
  IF g = "user_error" THEN Ok(<<"Error fetching user info.">>)
  ELSE IF g = "repos_error" THEN Ok(<<"Error fetching repositories.">>)
  ELSE IF g = "found" THEN Ok(<<"https://github.com/", "u", "/", "r">>)
  ELSE IF g = "not_found" THEN Ok(<<"No recent GitHub Actions found.">>)
  ELSE Raise("httpx.RequestError")

\* main1.py get_vercel_api_with_python_code, by the way it ends
VercelEnds == {"url", "no_url", "exception"}
get_vercel_api_with_python_code(v) ==
  IF v = "url" THEN Ok(<<"https://", "p", ".vercel.app">>)
  ELSE IF v = "no_url" THEN Ok(<<"Vercel deployment failed. Check logs.">>)
  ELSE Ok(<<"Error deploying to Vercel: ", "e">>)

Handled(extractor, context, llm, response, files) ==
  [extractor |-> extractor, context |-> context, llm |-> llm, resp |-> response,
   files |-> files]

\* main1.py solve_question, lines 166-171: which branch answers
route1(q) ==
  IF Contains(q, GITHUB_ACTION) /\ Contains(q, REPOSITORY_URL) THEN "github"
  ELSE IF Contains(q, FIND_VERCEL) THEN "vercel"
  ELSE "llm"

\* main1.py solve_question
solve_question1(q, o, g, v, files) ==
  IF route1(q) = "github"
  THEN Handled("github", << >>, NoLlm, answer_response(get_github_repo_with_action(g)), files)
  ELSE IF route1(q) = "vercel"
  THEN Handled("vercel", << >>, NoLlm, answer_response(get_vercel_api_with_python_code(v)), files)
  ELSE LET llm == get_llm_answer("main1", q, << >>, o)
       IN Handled("none", << >>, llm, answer_response(llm.res), files)

\* main4.py solve_question, lines 135-144: which extraction applies
dispatch4(file) ==
  LET filename == Lower(file.filename)
  IN IF ~file.present THEN "none"
     ELSE IF EndsWith(filename, DOT_PDF) \/ file.content_type = APPLICATION_PDF THEN "pdf"
     ELSE IF EndsWith(filename, DOT_JSONL) \/ EndsWith(filename, DOT_JSON) THEN "jsonl"
     ELSE "other"

\* main4.py solve_question
solve_question4(q, file, file_bytes, o, files) ==
  LET branch == dispatch4(file)
      context == IF branch = "pdf" THEN extract_text_from_pdf(file_bytes)
                 ELSE IF branch = "jsonl" THEN extract_text_from_jsonl(file_bytes)
                 ELSE IF branch = "other" THEN decode_other(file_bytes)
                 ELSE << >>
      llm == get_llm_answer("main4", q, context, o)
  IN Handled(branch, context, llm, answer_response(llm.res), files)

\* mutant: the .txt rule is tried first
dispatch5_txt_first(file) ==
  LET filename == Lower(file.filename)
  IN IF ~file.present THEN "none"
     ELSE IF EndsWith(filename, DOT_TXT) THEN "txt"
     ELSE IF EndsWith(filename, DOT_PDF) \/ file.content_type = APPLICATION_PDF THEN "pdf"
     ELSE IF EndsWith(filename, DOT_JSON) \/ EndsWith(filename, DOT_JSONL) THEN "json"
     ELSE IF \/ EndsWith(filename, DOT_PNG) \/ EndsWith(filename, DOT_JPEG)
             \/ EndsWith(filename, DOT_JPG) \/ EndsWith(filename, DOT_WEBP) THEN "image"
     ELSE "unsupported"

\* main5.py process_file, lines 130-150: which extraction applies
dispatch5(file) ==
  LET filename == Lower(file.filename)
  IN IF ~file.present THEN "none"
     ELSE IF EndsWith(filename, DOT_PDF) \/ file.content_type = APPLICATION_PDF THEN "pdf"
     ELSE IF EndsWith(filename, DOT_JSON) \/ EndsWith(filename, DOT_JSONL) THEN "json"
     ELSE IF EndsWith(filename, DOT_TXT) THEN "txt"
     ELSE IF \/ EndsWith(filename, DOT_PNG) \/ EndsWith(filename, DOT_JPEG)
             \/ EndsWith(filename, DOT_JPG) \/ EndsWith(filename, DOT_WEBP) THEN "image"
     ELSE "unsupported"

\* main5.py process_file
process_file5(q, file, file_bytes, o, files) ==
  LET filename == Lower(file.filename)
      branch == dispatch5(file)
  IN IF branch = "image"
     THEN LET img == process_image(file_bytes, filename, files)
          IN IF img.path # << >>
             THEN Handled(branch, << >>, NoLlm,
                          FileResponse(img.path, "image/png", <<"processed_">> \o filename),
                          img.files)
             ELSE Handled(branch, << >>, NoLlm,
                          HTTPException(500, "Error processing image"), img.files)
     ELSE IF branch = "unsupported"
     THEN Handled(branch, << >>, NoLlm, HTTPException(400, "Unsupported file format"), files)
     ELSE LET context == IF branch = "pdf" THEN extract_text_from_pdf(file_bytes)
                         ELSE IF branch = "json" THEN extract_text_from_json(file_bytes)
                         ELSE IF branch = "txt" THEN extract_text_from_txt(file_bytes)
                         ELSE << >>
              llm == get_llm_answer("main5", q, context, o)
          IN Handled(branch, context, llm, answer_response(llm.res), files)

\* ------------------------------------------------------------------ inputs
Alphabet == {"a", " ", "1", "[", "]", BAD}
ShortTexts == UNION {[1 .. n -> Alphabet] : n \in 0 .. MaxShort}
Docs == {<<"[", "1", ",", " ", "0", "]">>,
         <<"[", "[", "1", "]", ",", "1", "]">>,
         <<"1", "\n", "1">>,
         <<"[", "1", ",", "]">>,
         <<"0", "1">>,
         <<" ", "1", "0", "\n">>}
LongTexts ==
  {Rep("a", MAX_CONTEXT), <<BAD>> \o Rep("a", MAX_CONTEXT),
   Rep(" ", MAX_CONTEXT) \o <<"1">>}
    \cup {Rep("a", MAX_CONTEXT + k) : k \in 1 .. Over}
    \cup {Rep("1", MAX_CONTEXT + k) : k \in 1 .. Over}
    \cup {<<"[">> \o Rep("1", MAX_CONTEXT - 6 + k) \o <<"]">> : k \in 1 .. Over}

TextData(b) == [bytes |-> b, pdf |-> NoPdf, img |-> NoImg]
PageTexts == {<<"a">>, Rep("b", MAX_CONTEXT \div 2)}
PdfData == {[bytes |-> <<"%">>, pdf |-> [ok |-> TRUE, pages |-> ps], img |-> NoImg] :
              ps \in UNION {[1 .. n -> PageTexts] : n \in 1 .. MaxPages}}
ImgData == {[bytes |-> <<"i">>, pdf |-> NoPdf,
             img |-> [ok |-> TRUE, pixels |-> "X", mode |-> "RGBA"]],
            [bytes |-> <<"j">>, pdf |-> NoPdf,
             img |-> [ok |-> TRUE, pixels |-> "Y", mode |-> "RGB"]]}
ShortData == {TextData(b) : b \in ShortTexts \cup Docs} \cup ImgData
LongData == {TextData(b) : b \in LongTexts} \cup PdfData

Stem == <<"a">>
Names ==
  {<<Stem \o DOT_PDF, APPLICATION_PDF>>,
   <<<<"A", ".", "P", "D", "F">>, "application/octet-stream">>,
   <<Stem \o DOT_TXT, APPLICATION_PDF>>,
   <<Stem \o DOT_JSON, "application/json">>,
   <<Stem \o DOT_JSONL, "application/json">>,
   <<Stem \o DOT_TXT, "text/plain">>,
   <<Stem \o DOT_PNG, "image/png">>,
   <<<<"A", ".", "J", "p", "g">>, "image/jpeg">>,
   <<Stem \o DOT_JPEG, "image/jpeg">>,
   <<Stem \o DOT_WEBP, "image/webp">>,
   <<<<"d", "/">> \o Stem \o DOT_PNG, "image/png">>,
   <<Stem \o DOT_TXT \o DOT_PNG, "text/plain">>,
   <<Stem \o DOT_PNG, APPLICATION_PDF>>,
   <<Stem \o <<".", "e", "x", "e">>, "application/octet-stream">>,
   <<Stem, "text/plain">>}

\* one name per extraction path, for the long payloads
MainNames ==
  {<<Stem \o DOT_PDF, APPLICATION_PDF>>,
   <<Stem \o DOT_JSON, "application/json">>,
   <<Stem \o DOT_JSONL, "application/json">>,
   <<Stem \o DOT_TXT, "text/plain">>,
   <<Stem \o <<".", "e", "x", "e">>, "application/octet-stream">>}

Uploads ==
  {NoFile}
    \cup {Upload(n[1], n[2], d) : n \in Names, d \in ShortData}
    \cup {Upload(n[1], n[2], d) : n \in MainNames, d \in LongData}

ConcUploads ==
  {NoFile, Upload(Stem \o DOT_TXT, "text/plain", TextData(<<"a">>)),
   Upload(Stem \o <<".", "e", "x", "e">>, "application/octet-stream", TextData(<<"a">>)),
   Upload(Stem \o DOT_PNG, "image/png", TextData(<<"a">>))}
    \cup {Upload(Stem \o DOT_PNG, "image/png", d) : d \in ImgData}
    \cup {Upload(<<"A", ".", "P", "N", "G">>, "image/png", d) : d \in ImgData}

ShortQuestion == <<"q">>
LongQuestions == {Rep("q", MAX_QUESTION_LENGTH)}
                   \cup {Rep("q", MAX_QUESTION_LENGTH + k) : k \in 1 .. Over}
RoutedQuestions == {GITHUB_ACTION \o <<" ">> \o REPOSITORY_URL, GITHUB_ACTION, FIND_VERCEL,
                    REPOSITORY_URL \o FIND_VERCEL \o GITHUB_ACTION}

Choice(c) == [isStr |-> TRUE, content |-> c]
NullChoice == [isStr |-> FALSE, content |-> << >>]
Bodies ==
  {NoJson,
   [valid |-> TRUE, hasChoices |-> FALSE, choices |-> << >>],
   [valid |-> TRUE, hasChoices |-> TRUE, choices |-> << >>],
   [valid |-> TRUE, hasChoices |-> TRUE, choices |-> <<NullChoice>>],
   [valid |-> TRUE, hasChoices |-> TRUE, choices |-> <<Choice(<<" ", "4", " ", "2", "\n">>)>>],
   [valid |-> TRUE, hasChoices |-> TRUE, choices |-> <<Choice(<<"4">>), Choice(<<"5">>)>>]}
Statuses == {429, 403, 500}
Outcomes ==
  {Http(200, <<"b">>, j) : j \in Bodies}
    \cup {Http(s, <<"b">>, NoJson) : s \in Statuses}
    \cup {Timeout(<<"t">>), TransportError(<<"e">>)}

\* ------------------------------------------------------------------- state
VARIABLES
  rev,         \* the revision that is serving
  pc,          \* per request: off, recv, read, returned, sent
  question,    \* per request: the form field question
  upload,      \* per request: the form field file
  file_bytes,  \* per request: what await file.read() returned
  extractor,   \* per request: the dispatch branch taken
  context,     \* per request: the extracted context
  prompt,      \* per request: the user message posted upstream
  posts,       \* per request: number of httpx.post calls made
  outcome,     \* per request: how the post ended
  resp,        \* per request: what the handler returned or raised
  sent,        \* per request: the file body put on the wire
  disk         \* the output directory: path -> file content

vars == <<rev, pc, question, upload, file_bytes, extractor, context, prompt, posts,
          outcome, resp, sent, disk>>

Blank ==
  /\ file_bytes = [r \in Req |-> NoData]
  /\ extractor = [r \in Req |-> "none"]
  /\ context = [r \in Req |-> << >>]
  /\ prompt = [r \in Req |-> << >>]
  /\ posts = [r \in Req |-> 0]
  /\ outcome = [r \in Req |-> NoOutcome]
  /\ resp = [r \in Req |-> NoResp]
  /\ sent = [r \in Req |-> NoArtifact]
  /\ disk = << >>

\* one request, drawn from the wide input sets
Init ==
  /\ Blank
  /\ pc = [r \in Req |-> IF r = 1 THEN "recv" ELSE "off"]
  /\ \E v \in Revs, q \in {ShortQuestion} \cup LongQuestions \cup RoutedQuestions,
        f \in Uploads :
       /\ \/ v = "main1" /\ f \in {NoFile, Upload(Stem \o DOT_PDF, APPLICATION_PDF, TextData(<<"a">>))}
          \/ v # "main1" /\ q = ShortQuestion
          \/ v # "main1" /\ q \in LongQuestions
               /\ f.data \in {NoData, TextData(<<"a">>), TextData(Rep("a", MAX_CONTEXT + Over))}
       /\ rev = v
       /\ question = [r \in Req |-> IF r = 1 THEN q ELSE << >>]
       /\ upload = [r \in Req |-> IF r = 1 THEN f ELSE NoFile]

\* NumReq requests in flight on the file-aware revision
InitConc ==
  /\ Blank
  /\ rev = "main5"
  /\ pc = [r \in Req |-> "recv"]
  /\ question = [r \in Req |-> ShortQuestion]
  /\ upload \in [Req -> ConcUploads]

Apply(r, h) ==
  /\ extractor' = [extractor EXCEPT ![r] = h.extractor]
  /\ context' = [context EXCEPT ![r] = h.context]
  /\ prompt' = [prompt EXCEPT ![r] = h.llm.prompt]
  /\ posts' = [posts EXCEPT ![r] = h.llm.posts]
  /\ outcome' = [outcome EXCEPT ![r] = h.llm.outcome]
  /\ resp' = [resp EXCEPT ![r] = h.resp]
  /\ disk' = h.files
  /\ pc' = [pc EXCEPT ![r] = "returned"]
  /\ UNCHANGED <<rev, question, upload, file_bytes, sent>>

\* main1.py solve_question: the file is never read
Solve1(r) ==
  /\ rev = "main1" /\ pc[r] = "recv"
  /\ \E route \in {route1(question[r])} :
       \E o \in IF route = "llm" THEN Outcomes ELSE {NoOutcome},
          g \in IF route = "github" THEN GithubEnds ELSE {"found"},
          v \in IF route = "vercel" THEN VercelEnds ELSE {"url"} :
         \E h \in {solve_question1(question[r], o, g, v, disk)} : Apply(r, h)

\* main4.py solve_question up to "await file.read()"
Read4(r) ==
  /\ rev = "main4" /\ pc[r] = "recv" /\ upload[r].present
  /\ file_bytes' = [file_bytes EXCEPT ![r] = upload[r].data]
  /\ pc' = [pc EXCEPT ![r] = "read"]
  /\ UNCHANGED <<rev, question, upload, extractor, context, prompt, posts, outcome,
                 resp, sent, disk>>

\* main4.py solve_question from there to its return
Solve4(r) ==
  /\ rev = "main4"
  /\ pc[r] = IF upload[r].present THEN "read" ELSE "recv"
  /\ \E o \in Outcomes :
       \E h \in {solve_question4(question[r], upload[r], file_bytes[r], o, disk)} : Apply(r, h)

\* main5.py process_file up to "await file.read()"
Read5(r) ==
  /\ rev = "main5" /\ pc[r] = "recv" /\ upload[r].present
  /\ file_bytes' = [file_bytes EXCEPT ![r] = upload[r].data]
  /\ pc' = [pc EXCEPT ![r] = "read"]
  /\ UNCHANGED <<rev, question, upload, extractor, context, prompt, posts, outcome,
                 resp, sent, disk>>

\* main5.py process_file from there to its return or raise
Process5(r) ==
  /\ rev = "main5"
  /\ pc[r] = IF upload[r].present THEN "read" ELSE "recv"
  /\ \E o \in Outcomes :
       \E h \in {process_file5(question[r], upload[r], file_bytes[r], o, disk)} : Apply(r, h)

\* the server sends the response; a FileResponse opens and reads its path now
Send(r) ==
  /\ pc[r] = "returned"
  /\ sent' = [sent EXCEPT ![r] =
                IF resp[r].kind = "file" /\ resp[r].path \in DOMAIN disk
                THEN disk[resp[r].path] ELSE NoArtifact]
  /\ pc' = [pc EXCEPT ![r] = "sent"]
  /\ UNCHANGED <<rev, question, upload, file_bytes, extractor, context, prompt, posts,
                 outcome, resp, disk>>

Next == \E r \in Req : Solve1(r) \/ Read4(r) \/ Solve4(r) \/ Read5(r) \/ Process5(r) \/ Send(r)

Spec == Init /\ [][Next]_vars

NextConc == \E r \in Req : Read5(r) \/ Process5(r) \/ Send(r)

SpecConc == InitConc /\ [][NextConc]_vars

\* ------------------------------------------------------------------ claims
Done(r) == pc[r] \in {"returned", "sent"}
\* the LLM client was invoked for request r
Asked(r) == Done(r) /\ posts[r] = 1

GoodBody(o) ==
  /\ o.json.valid /\ o.json.hasChoices
  /\ o.json.choices # << >> /\ o.json.choices[1].isStr

\* answer is a literal, the status code, ": " and the raw response body
Embeds(a, status, text) ==
  /\ Len(a) = 3 + Len(text)
  /\ a[2] = ToString(status)
  /\ SubSeq(a, 4, Len(a)) = text

\* c is the first min(n, MAX_CONTEXT) characters of the n-character text t
IsPrefixCap(c, t) ==
  /\ Len(c) = (IF Len(t) <= MAX_CONTEXT THEN Len(t) ELSE MAX_CONTEXT)
  /\ \A i \in 1 .. Len(c) : c[i] = t[i]

Extracted(r) == Done(r) /\ extractor[r] \in {"pdf", "json", "jsonl", "txt", "other"}
DecodedText(r) == Decode(upload[r].data.bytes)
SourceText(r) ==
  IF extractor[r] = "pdf" THEN JoinPages(upload[r].data.pdf.pages, 1) ELSE DecodedText(r)
ExtractionFails(r) ==
  \/ extractor[r] = "pdf" /\ ~upload[r].data.pdf.ok
  \/ extractor[r] = "json" /\ ~JsonLoads(DecodedText(r)).ok
Reserialized(r) == JsonDumps(JsonLoads(DecodedText(r)).val, 0)

HasContextLabel(p) ==
  \E i \in 1 .. Len(p) : p[i] \in {COT_CONTEXT, M1_CONTEXT, M5_CONTEXT}

\* C1: in main4 and main5 a request with no file is answered with status 200
\* and {"answer": <string>}, however the upstream call ends.
C1_NoFileAlwaysAnswers ==
  \A r \in Req :
    (rev \in {"main4", "main5"} /\ Done(r) /\ ~upload[r].present) =>
      (posts[r] = 1 /\ resp[r].kind = "json" /\ resp[r].status = 200)

\* C2 as stated: main4 and main5 alike map 200 to the trimmed first content,
\* 429 and 403 to their fixed diagnostics, any other status to status and body.
C2_MappingEveryRevision ==
  \A r \in Req :
    (rev \in {"main4", "main5"} /\ Asked(r) /\ outcome[r].kind = "http") =>
      LET o == outcome[r]
          a == resp[r].answer
      IN /\ (o.status = 200 /\ GoodBody(o)) =>
              (resp[r].kind = "json" /\ a = Strip(o.json.choices[1].content))
         /\ o.status = 429 => a = <<MSG_429>>
         /\ o.status = 403 => a \in {<<MSG_403_1>>, <<MSG_403_4>>}
         /\ o.status \notin {200, 429, 403} => Embeds(a, o.status, o.text)

\* C2 amended: main4 maps as stated; main1 maps as stated but returns the 200
\* content untrimmed; main5 tells only 200 apart and maps every other status,
\* 429 and 403 included, to the string that embeds the status and the body.
C2_MappingByRevision ==
  \A r \in Req :
    (Asked(r) /\ outcome[r].kind = "http") =>
      LET o == outcome[r]
          a == resp[r].answer
      IN /\ resp[r].kind = "json" => resp[r].status = 200
         /\ (o.status = 200 /\ GoodBody(o)) =>
              /\ resp[r].kind = "json"
              /\ a = IF rev = "main1" THEN o.json.choices[1].content
                     ELSE Strip(o.json.choices[1].content)
         /\ (o.status = 429 /\ rev # "main5") => a = <<MSG_429>>
         /\ (o.status = 403 /\ rev = "main1") => a = <<MSG_403_1>>
         /\ (o.status = 403 /\ rev = "main4") => a = <<MSG_403_4>>
         /\ (o.status \notin {200, 429, 403} \/ (o.status # 200 /\ rev = "main5")) =>
              (resp[r].kind = "json" /\ Embeds(a, o.status, o.text))

C2_Witness ==
  \E r \in Req :
    /\ pc[r] = "sent" /\ rev = "main5" /\ posts[r] = 1
    /\ outcome[r].kind = "http" /\ outcome[r].status = 429
    /\ resp[r].kind = "json" /\ resp[r].answer # <<MSG_429>>

\* C3 as stated: a timed-out post gives the fixed "request timed out"
\* diagnostic as a 200 answer, and the post is made once.
C3_TimeoutFixedDiagnostic ==
  \A r \in Req :
    (Done(r) /\ outcome[r].kind = "timeout") =>
      /\ resp[r].kind = "json" /\ resp[r].status = 200
      /\ resp[r].answer \in {<<MSG_TIMEOUT_1>>, <<MSG_TIMEOUT_4>>}
      /\ posts[r] = 1

\* C3 amended: a timed-out post is answered with status 200 and a string, and
\* no request posts more than once; the string is the fixed "request timed
\* out" diagnostic in main1 and main4, and in main5 the transport-error
\* string "Failed to connect to LLM: " followed by the error text.
C3_TimeoutByRevision ==
  \A r \in Req :
    /\ posts[r] <= 1
    /\ (Done(r) /\ outcome[r].kind = "timeout") =>
         /\ resp[r].kind = "json" /\ resp[r].status = 200
         /\ posts[r] = 1
         /\ resp[r].answer =
              IF rev = "main1" THEN <<MSG_TIMEOUT_1>>
              ELSE IF rev = "main4" THEN <<MSG_TIMEOUT_4>>
              ELSE <<"Failed to connect to LLM: ">> \o outcome[r].text

C3_Witness ==
  \E r \in Req :
    /\ pc[r] = "sent" /\ rev = "main5" /\ outcome[r].kind = "timeout"
    /\ resp[r].answer[1] = "Failed to connect to LLM: "

\* C4 as stated: on every text path the context is the first min(n, 3000)
\* characters of the n-character decoded text, and empty when extraction fails.
C4_ContextIsPrefixOfText ==
  \A r \in Req :
    Extracted(r) =>
      IF ExtractionFails(r) THEN context[r] = << >>
      ELSE IsPrefixCap(context[r], SourceText(r))

\* C4 amended: the context never exceeds 3000 characters and is empty when
\* extraction fails; it is the first min(n, 3000) characters of the extracted
\* text on the PDF, .txt and main4 paths, and on main5's JSON/JSONL path the
\* first min(m, 3000) characters of the m-character re-serialization of the
\* parsed value, not of the decoded text.
C4_ContextCapped ==
  \A r \in Req :
    Extracted(r) =>
      /\ Len(context[r]) <= MAX_CONTEXT
      /\ IF ExtractionFails(r) THEN context[r] = << >>
         ELSE IF extractor[r] = "json" THEN IsPrefixCap(context[r], Reserialized(r))
         ELSE IsPrefixCap(context[r], SourceText(r))

C4_Witness ==
  \E r \in Req :
    /\ pc[r] = "sent" /\ extractor[r] = "json" /\ ~ExtractionFails(r)
    /\ Len(DecodedText(r)) > MAX_CONTEXT
    /\ Len(context[r]) < MAX_CONTEXT

\* C5 as stated: a .json upload with valid JSON gives the indent-2
\* re-serialization cut at 3000, a .jsonl upload the raw decoded text cut at
\* 3000, and invalid JSON an empty context with the LLM still called.
C5_JsonAndJsonl ==
  \A r \in Req :
    (Done(r) /\ extractor[r] \in {"json", "jsonl"}) =>
      IF EndsWith(Lower(upload[r].filename), DOT_JSONL)
      THEN context[r] = Slice(DecodedText(r), MAX_CONTEXT)
      ELSE IF JsonLoads(DecodedText(r)).ok
      THEN context[r] = Slice(Reserialized(r), MAX_CONTEXT)
      ELSE context[r] = << >> /\ posts[r] = 1

\* C5 amended: main5 treats .json and .jsonl alike: valid JSON gives the
\* indent-2 re-serialization cut at 3000, anything else an empty context, and
\* the LLM is called either way; main4 treats .json and .jsonl alike as raw
\* decoded text cut at 3000, never parsed.
C5_JsonByRevision ==
  \A r \in Req :
    (Done(r) /\ extractor[r] \in {"json", "jsonl"}) =>
      /\ posts[r] = 1
      /\ rev = "main5" =>
           IF JsonLoads(DecodedText(r)).ok
           THEN context[r] = Slice(Reserialized(r), MAX_CONTEXT)
           ELSE context[r] = << >>
      /\ rev = "main4" => context[r] = Slice(DecodedText(r), MAX_CONTEXT)

C5_Witness ==
  \E r \in Req :
    /\ pc[r] = "sent" /\ rev = "main5" /\ extractor[r] = "json"
    /\ EndsWith(Lower(upload[r].filename), DOT_JSONL)
    /\ JsonLoads(DecodedText(r)).ok
    /\ context[r] # Slice(DecodedText(r), MAX_CONTEXT)

\* C6 as stated: every upload dispatched as an image is answered with an
\* image/png file named processed_<original filename>, without the LLM.
C6_ImageResponse ==
  \A r \in Req :
    (rev = "main5" /\ Done(r) /\ extractor[r] = "image") =>
      /\ resp[r].kind = "file" /\ resp[r].status = 200
      /\ resp[r].media = "image/png"
      /\ resp[r].filename = <<"processed_">> \o upload[r].filename
      /\ posts[r] = 0

CanReencode(r) ==
  /\ upload[r].data.img.ok
  /\ ~(\E i \in 1 .. Len(upload[r].filename) : upload[r].filename[i] = "/")

\* C6 amended: an upload dispatched as an image never reaches the LLM; when
\* its bytes decode as an image and the output file can be written, the answer
\* is an image/png file response named processed_<lower-cased filename> with a
\* PNG body, and otherwise HTTP 500.
C6_ImageResponseLowered ==
  \A r \in Req :
    (rev = "main5" /\ Done(r) /\ extractor[r] = "image") =>
      /\ posts[r] = 0
      /\ IF CanReencode(r)
         THEN /\ resp[r].kind = "file" /\ resp[r].status = 200
              /\ resp[r].media = "image/png"
              /\ resp[r].filename = <<"processed_">> \o Lower(upload[r].filename)
              /\ pc[r] = "sent" => sent[r].fmt = "PNG"
         ELSE resp[r].kind = "httperror" /\ resp[r].status = 500

C6_Witness ==
  \E r \in Req :
    /\ pc[r] = "sent" /\ extractor[r] = "image" /\ resp[r].kind = "file"
    /\ upload[r].filename # Lower(upload[r].filename)
    /\ sent[r].fmt = "PNG"

\* C7: main5 tries PDF (extension or content type), JSON/JSONL, TXT, image in
\* this order and the first match decides; an upload matching none is answered
\* 400 with a detail, with no extraction, no LLM call and no file written.
C7_DispatchOrder ==
  \A r \in Req :
    (rev = "main5" /\ Done(r) /\ upload[r].present) =>
      LET fn == Lower(upload[r].filename)
          isPdf == EndsWith(fn, DOT_PDF) \/ upload[r].content_type = APPLICATION_PDF
          isJson == EndsWith(fn, DOT_JSON) \/ EndsWith(fn, DOT_JSONL)
          isTxt == EndsWith(fn, DOT_TXT)
          isImage == \E e \in {DOT_PNG, DOT_JPG, DOT_JPEG, DOT_WEBP} : EndsWith(fn, e)
      IN /\ isPdf => extractor[r] = "pdf"
         /\ (~isPdf /\ isJson) => extractor[r] = "json"
         /\ (~isPdf /\ ~isJson /\ isTxt) => extractor[r] = "txt"
         /\ (~isPdf /\ ~isJson /\ ~isTxt /\ isImage) => extractor[r] = "image"
         /\ (~isPdf /\ ~isJson /\ ~isTxt /\ ~isImage) =>
              /\ extractor[r] = "unsupported"
              /\ resp[r].kind = "httperror" /\ resp[r].status = 400
              /\ resp[r].answer # << >>
              /\ context[r] = << >> /\ posts[r] = 0 /\ disk = << >>

C7_Witness ==
  \E r \in Req :
    /\ pc[r] = "sent" /\ rev = "main5" /\ extractor[r] = "unsupported"
    /\ resp[r].status = 400

\* C8 as stated: in every revision the prompt carries a Context section
\* exactly when the context is not empty.
C8_ContextIffNonEmpty ==
  \A r \in Req :
    Asked(r) => (HasContextLabel(prompt[r]) <=> context[r] # << >>)

\* C8 amended: in main1 and main4 the prompt carries a Context section
\* exactly when the context is not empty (in main1 the prompt is then the
\* question alone); in main5 the Context label is always emitted, with an
\* empty body when the context is empty.
C8_ContextByRevision ==
  \A r \in Req :
    Asked(r) =>
      /\ rev # "main5" => (HasContextLabel(prompt[r]) <=> context[r] # << >>)
      /\ (rev = "main1" /\ context[r] = << >>) => prompt[r] = question[r]
      /\ rev = "main5" =>
           /\ prompt[r][1] = M5_CONTEXT
           /\ SubSeq(prompt[r], 2, 1 + Len(context[r])) = context[r]
           /\ prompt[r][2 + Len(context[r])] = M5_QUESTION

C8_Witness ==
  \E r \in Req :
    /\ Asked(r) /\ rev = "main5" /\ context[r] = << >>
    /\ HasContextLabel(prompt[r])

\* C9: the PNG body sent to a request is the re-encoding of the image that
\* request uploaded.
C9_OwnArtifact ==
  \A r \in Req :
    (pc[r] = "sent" /\ resp[r].kind = "file") =>
      sent[r] = [fmt |-> "PNG", pixels |-> upload[r].data.img.pixels, mode |-> "RGB"]

TemplateLen == CharLen(<<COT_HEAD, COT_CONTEXT, COT_SEP, COT_QUESTION, COT_SEP, COT_TAIL>>)
QuestionComponent(q) ==
  IF Len(q) <= MAX_QUESTION_LENGTH THEN q
  ELSE SubSeq(q, 1, MAX_QUESTION_LENGTH) \o <<ELLIPSIS>>

\* C10: in main4 the prompt is the template around the question component
\* (the question when it has at most 2500 characters, else its first 2500
\* characters and "...") and the context as extracted, at most 3000 characters
\* and without marker; its length is at most the template's plus 2503 plus 3000.
C10_PromptBounded ==
  \A r \in Req :
    (rev = "main4" /\ Asked(r)) =>
      /\ Len(context[r]) <= MAX_CONTEXT
      /\ prompt[r] =
           <<COT_HEAD>>
             \o (IF context[r] # << >> THEN <<COT_CONTEXT>> \o context[r] \o <<COT_SEP>>
                 ELSE << >>)
             \o <<COT_QUESTION>> \o QuestionComponent(question[r]) \o <<COT_SEP, COT_TAIL>>
      /\ CharLen(prompt[r]) <= TemplateLen + 2503 + 3000

C10_Witness ==
  \E r \in Req :
    /\ rev = "main4" /\ Asked(r)
    /\ Len(question[r]) > MAX_QUESTION_LENGTH
    /\ Len(context[r]) = MAX_CONTEXT
    /\ CharLen(prompt[r]) = TemplateLen + 2503 + 3000

====
